---- MODULE Spec2Model ----
(***************************************************************************)
(* ont-stats: the ONT client (login handshake, guarded page fetches), the  *)
(* page parser (script variables, labelled form groups, merge) and the     *)
(* command-line run that strings them together.                            *)
(*                                                                         *)
(* Strings that the code inspects character by character (labels, values,  *)
(* session ids) are sequences of one-character strings; "" is <<>>.        *)
(* A page text is a record of what the code can observe of it:             *)
(*   frags  - the literal fragments of the body, in order ("x in text")    *)
(*   script - the script assignments  var NAME = qVALq  in order           *)
(*   groups - the <div class="form-group"> elements in document order      *)
(***************************************************************************)
EXTENDS Integers, Sequences, FiniteSets, TLC

\* ---------------------------------------------------------------- bounds
MaxCalls == 3
MaxScript == 2
MaxGroups == 2
MaxMerges == 2

\* ------------------------------------------------------------- sequences
SeqsUpTo(S, n) == UNION { [1..k -> S] : k \in 0..n }

\* ------------------------------------------------------------ page texts
Text(f, s, g) == [frags |-> f, script |-> s, groups |-> g]

NoText == Text(<<>>, <<>>, <<>>)

\* Python's  marker in response.text
Contains(text, marker) == \E i \in DOMAIN text.frags : text.frags[i] = marker

Assign(kw, name, q, val) == [kw |-> kw, name |-> name, q |-> q, val |-> val]

\* ------------------------------------------------------------ exceptions
Exc(t, m) == [type |-> t, msg |-> m]

NoExc == Exc("None", "")

SidNotFound == Exc("AuthenticationError", "Could not extract session ID from login page. The ONT web interface may have changed.")

InvalidCredentials == Exc("AuthenticationError", "Invalid username or password")

AuthFailed == Exc("AuthenticationError", "Authentication failed")

SessionExpired == Exc("AuthenticationError", "Session expired. Please login again.")

NotLoggedIn == Exc("RuntimeError", "Not logged in. Call login() first.")

HTTPError == Exc("HTTPError", "")

ConnectionError == Exc("ConnectionError", "")

\* --------------------------------------------------------- the transport
\* What session.get / session.post hand back: a connection error raised by
\* the call itself, a 4xx/5xx status that raise_for_status() turns into
\* HTTPError, or a 2xx body.
Resp(st, text) == [status |-> st, text |-> text]

NoResp == Resp("none", NoText)

TransportExc(resp) == IF resp.status = "conn_error" THEN ConnectionError ELSE IF resp.status = "http_error" THEN HTTPError ELSE NoExc

LOGIN_PATH == "/cgi-bin/install_login.cgi"

INFO_PATH == "/cgi-bin/install_info.cgi"

IDENTIFIER_PATH == "/cgi-bin/install_identifier.cgi"

NoHash == [md5 |-> <<>>]

NoData == [Loginuser |-> "", LoginPasswordValue |-> NoHash, submitValue |-> ""]

Get(path) == [method |-> "GET", path |-> path, data |-> NoData]

Post(path, data) == [method |-> "POST", path |-> path, data |-> data]

\* ------------------------------------------------------------- ONTClient
HexDigits == {"0","1","2","3","4","5","6","7","8","9","a","b","c","d","e","f","A","B","C","D","E","F"}

Quotes == {"'", "\""}

\* the longest run of hex digits s starts with: what ([a-fA-F0-9]+) takes
RECURSIVE HexPrefix(_)
HexPrefix(s) == IF s = <<>> \/ Head(s) \notin HexDigits THEN <<>> ELSE <<Head(s)>> \o HexPrefix(Tail(s))

\* SidMatches that takes double quotes only
SidMatches_double_only(a) == a.kw = "var" /\ a.name = "sid" /\ a.q = "\"" /\ Len(HexPrefix(a.val)) >= 1 /\ (Len(HexPrefix(a.val)) = Len(a.val) \/ a.val[Len(HexPrefix(a.val)) + 1] = "\"")

\* SID_PATTERN = var\s+sid\s*=\s*['"]([a-fA-F0-9]+)['"]  on one assignment
\* var NAME = qVALq : a quote of either kind, hex digits, and a quote of
\* either kind again, be it one inside VAL or the one that closes it
SidMatches(a) == a.kw = "var" /\ a.name = "sid" /\ a.q \in Quotes /\ Len(HexPrefix(a.val)) >= 1 /\ (Len(HexPrefix(a.val)) = Len(a.val) \/ a.val[Len(HexPrefix(a.val)) + 1] \in Quotes)

\* SID_PATTERN.search(text): the leftmost match, or 0 for None
SID_PATTERN_search(text) == IF \E i \in DOMAIN text.script : SidMatches(text.script[i]) THEN CHOOSE i \in DOMAIN text.script : SidMatches(text.script[i]) /\ \A j \in 1..(i-1) : ~SidMatches(text.script[j]) ELSE 0

\* _get_session_id: the result of the GET of the login page
get_session_id(resp) == IF TransportExc(resp) # NoExc THEN [exc |-> TransportExc(resp), sid |-> <<>>] ELSE LET m == SID_PATTERN_search(resp.text) IN IF m = 0 THEN [exc |-> SidNotFound, sid |-> <<>>] ELSE [exc |-> NoExc, sid |-> HexPrefix(resp.text.script[m].val)]

\* compute_password_hash that digests the session id before the password
compute_password_hash_sid_first(password, sid) == [md5 |-> sid \o <<":">> \o password]

\* hashlib.md5(f"{password}:{sid}".encode()).hexdigest(), the digest kept
\* symbolic as the message it is taken of
compute_password_hash(password, sid) == [md5 |-> password \o <<":">> \o sid]

LoginData(username, password, sid) == [Loginuser |-> username, LoginPasswordValue |-> compute_password_hash(password, sid), submitValue |-> "1"]

WRONG_PASSWORD_MARKER == "Falscher Benutzer oder Passwort"

AUTH_ERROR_MARKER == "Fehler bei Authentifizierung"

\* LoginVerdict with the two marker tests in the other order
LoginVerdict_auth_first(text) == IF Contains(text, AUTH_ERROR_MARKER) THEN AuthFailed ELSE IF Contains(text, WRONG_PASSWORD_MARKER) THEN InvalidCredentials ELSE NoExc

\* the checks of the POST response body, in the order the code makes them
LoginVerdict(text) == IF Contains(text, WRONG_PASSWORD_MARKER) THEN InvalidCredentials ELSE IF Contains(text, AUTH_ERROR_MARKER) THEN AuthFailed ELSE NoExc

\* LoginPost that clears _logged_in when the POST fails or is refused
LoginPost_clears_on_failure(li, username, password, sid, postResp) == IF TransportExc(postResp) # NoExc THEN [exc |-> TransportExc(postResp), logged_in |-> FALSE, sent |-> <<Get(LOGIN_PATH), Post(LOGIN_PATH, LoginData(username, password, sid))>>] ELSE IF LoginVerdict(postResp.text) # NoExc THEN [exc |-> LoginVerdict(postResp.text), logged_in |-> FALSE, sent |-> <<Get(LOGIN_PATH), Post(LOGIN_PATH, LoginData(username, password, sid))>>] ELSE [exc |-> NoExc, logged_in |-> TRUE, sent |-> <<Get(LOGIN_PATH), Post(LOGIN_PATH, LoginData(username, password, sid))>>]

\* the POST half of login, once the session id is known
LoginPost(li, username, password, sid, postResp) == IF TransportExc(postResp) # NoExc THEN [exc |-> TransportExc(postResp), logged_in |-> li, sent |-> <<Get(LOGIN_PATH), Post(LOGIN_PATH, LoginData(username, password, sid))>>] ELSE IF LoginVerdict(postResp.text) # NoExc THEN [exc |-> LoginVerdict(postResp.text), logged_in |-> li, sent |-> <<Get(LOGIN_PATH), Post(LOGIN_PATH, LoginData(username, password, sid))>>] ELSE [exc |-> NoExc, logged_in |-> TRUE, sent |-> <<Get(LOGIN_PATH), Post(LOGIN_PATH, LoginData(username, password, sid))>>]

\* login that goes on to the POST, with an empty session id, when the page has none
login_posts_without_sid(li, username, password, getResp, postResp) == LET s == get_session_id(getResp) IN IF s.exc # NoExc /\ s.exc # SidNotFound THEN [exc |-> s.exc, logged_in |-> li, sent |-> <<Get(LOGIN_PATH)>>] ELSE LoginPost(li, username, password, s.sid, postResp)

\* login(username, password) on a client whose _logged_in is li
login(li, username, password, getResp, postResp) == LET s == get_session_id(getResp) IN IF s.exc # NoExc THEN [exc |-> s.exc, logged_in |-> li, sent |-> <<Get(LOGIN_PATH)>>] ELSE LoginPost(li, username, password, s.sid, postResp)

LOGIN_REDIRECT_MARKER == "install_login.cgi"

PARENT_REDIRECT_MARKER == "window.parent.location"

\* fetch_install_info() on a client whose _logged_in is li
fetch_install_info(li, resp) == IF ~li THEN [exc |-> NotLoggedIn, ret |-> NoText, sent |-> <<>>] ELSE IF TransportExc(resp) # NoExc THEN [exc |-> TransportExc(resp), ret |-> NoText, sent |-> <<Get(INFO_PATH)>>] ELSE IF Contains(resp.text, LOGIN_REDIRECT_MARKER) /\ Contains(resp.text, PARENT_REDIRECT_MARKER) THEN [exc |-> SessionExpired, ret |-> NoText, sent |-> <<Get(INFO_PATH)>>] ELSE [exc |-> NoExc, ret |-> resp.text, sent |-> <<Get(INFO_PATH)>>]

\* fetch_identifier without the _logged_in guard
fetch_identifier_unguarded(li, resp) == IF TransportExc(resp) # NoExc THEN [exc |-> TransportExc(resp), ret |-> NoText, sent |-> <<Get(IDENTIFIER_PATH)>>] ELSE [exc |-> NoExc, ret |-> resp.text, sent |-> <<Get(IDENTIFIER_PATH)>>]

\* fetch_identifier() on a client whose _logged_in is li
fetch_identifier(li, resp) == IF ~li THEN [exc |-> NotLoggedIn, ret |-> NoText, sent |-> <<>>] ELSE IF TransportExc(resp) # NoExc THEN [exc |-> TransportExc(resp), ret |-> NoText, sent |-> <<Get(IDENTIFIER_PATH)>>] ELSE [exc |-> NoExc, ret |-> resp.text, sent |-> <<Get(IDENTIFIER_PATH)>>]

\* ---------------------------------------------------------------- models
TypedFields == {"ont_id", "vendor_id", "serial_number", "gpon_serial_number", "mac_address", "hardware_version", "active_software_version", "standby_software_version", "country_code", "connection_status", "optical_power_dbm"}

\* ONTInfo(fetched_at=now): every string field "", extra_fields {}
ONTInfo(now) == [ont_id |-> <<>>, vendor_id |-> <<>>, serial_number |-> <<>>, gpon_serial_number |-> <<>>, mac_address |-> <<>>, hardware_version |-> <<>>, active_software_version |-> <<>>, standby_software_version |-> <<>>, country_code |-> <<>>, connection_status |-> <<>>, optical_power_dbm |-> <<>>, fetched_at |-> now, extra_fields |-> <<>>]

\* datetime.isoformat() of the instant t microseconds past 2000-01-01
\* 00:00:00 (t < 10): YYYY-MM-DDTHH:MM:SS.ffffff, the fraction left out
\* when the microsecond is 0
isoformat(t) == <<"2","0","0","0","-","0","1","-","0","1","T","0","0",":","0","0",":","0","0">> \o (IF t = 0 THEN <<>> ELSE <<".","0","0","0","0","0", <<"0","1","2","3","4","5","6","7","8","9">>[t + 1]>>)

\* the keys of the dict to_dict returns for self
ToDictKeys(self) == TypedFields \cup {"fetched_at"} \cup (IF self.extra_fields # <<>> THEN {"extra_fields"} ELSE {})

\* to_dict with the two serial numbers under each other's key
to_dict_serials_swapped(self) == [k \in ToDictKeys(self) |-> IF k = "fetched_at" THEN isoformat(self.fetched_at) ELSE IF k = "serial_number" THEN self.gpon_serial_number ELSE IF k = "gpon_serial_number" THEN self.serial_number ELSE self[k]]

\* ONTInfo.to_dict: the eleven string fields under their names, fetched_at
\* as its isoformat() string, extra_fields only when it is not empty
to_dict(self) == [k \in ToDictKeys(self) |-> IF k = "fetched_at" THEN isoformat(self.fetched_at) ELSE self[k]]

\* ---------------------------------------------------------------- parser
JS_VAR_NAMES == {"gponPasswd", "gponStatus", "countryCode"}

\* the text of s before its first double quote: what ([^"]*)" captures
RECURSIVE UpToQuote(_)
UpToQuote(s) == IF s = <<>> \/ Head(s) = "\"" THEN <<>> ELSE <<Head(s)>> \o UpToQuote(Tail(s))

\* JS_VAR_PATTERNS[name] = var\s+NAME\s*=\s*"([^"]*)"  on one assignment
JsMatches(a, name) == a.kw = "var" /\ a.name = name /\ a.q = "\""

\* pattern.search(html): the leftmost match, or 0 for None
JsSearch(text, name) == IF \E i \in DOMAIN text.script : JsMatches(text.script[i], name) THEN CHOOSE i \in DOMAIN text.script : JsMatches(text.script[i], name) /\ \A j \in 1..(i-1) : ~JsMatches(text.script[j], name) ELSE 0

parse_js_vars(text) == [name \in {n \in JS_VAR_NAMES : JsSearch(text, n) # 0} |-> UpToQuote(text.script[JsSearch(text, name)].val)]

LABEL_ONT_ID == <<"A","k","t","u","e","l","l","e"," ","O","N","T"," ","I","D">>

LABEL_VENDOR_ID == <<"H","ä","n","d","l","e","r"," ","I","D">>

LABEL_HARDWARE_VERSION == <<"H","a","r","d","w","a","r","e","v","e","r","s","i","o","n">>

LABEL_ACTIVE_SOFTWARE_VERSION == <<"A","k","t","i","v","e"," ","S","o","f","t","w","a","r","e","v","e","r","s","i","o","n">>

LABEL_STANDBY_SOFTWARE_VERSION == <<"S","t","a","n","d","b","y"," ","S","o","f","t","w","a","r","e","v","e","r","s","i","o","n">>

LABEL_COUNTRY_CODE == <<"L","a","n","d","e","s","v","o","r","w","a","h","l">>

LABEL_SERIAL_NUMBER == <<"S","e","r","i","e","n","n","u","m","m","e","r">>

LABEL_MAC_ADDRESS == <<"M","A","C","-","A","d","r","e","s","s","e">>

LABEL_OPTICAL_POWER_DBM == <<"O","p","t","i","s","c","h","e"," ","L","e","i","s","t","u","n","g"," ","(","d","B","m",")">>

LABEL_GPON_SERIAL_NUMBER == <<"G","P","O","N","-","S","e","r","i","e","n","n","u","m","m","e","r">>

LABEL_FIELD_MAP == (LABEL_ONT_ID :> "ont_id") @@ (LABEL_VENDOR_ID :> "vendor_id") @@ (LABEL_HARDWARE_VERSION :> "hardware_version") @@ (LABEL_ACTIVE_SOFTWARE_VERSION :> "active_software_version") @@ (LABEL_STANDBY_SOFTWARE_VERSION :> "standby_software_version") @@ (LABEL_COUNTRY_CODE :> "country_code") @@ (LABEL_SERIAL_NUMBER :> "serial_number") @@ (LABEL_MAC_ADDRESS :> "mac_address") @@ (LABEL_OPTICAL_POWER_DBM :> "optical_power_dbm") @@ (LABEL_GPON_SERIAL_NUMBER :> "gpon_serial_number")

\* LABEL_FIELD_MAP.get(label_text): "" stands for None
LabelField(label_text) == IF label_text \in DOMAIN LABEL_FIELD_MAP THEN LABEL_FIELD_MAP[label_text] ELSE ""

\* str.strip() of the label text
RECURSIVE LStrip(_)
LStrip(s) == IF s # <<>> /\ Head(s) = " " THEN LStrip(Tail(s)) ELSE s

RECURSIVE RStrip(_)
RStrip(s) == IF s # <<>> /\ s[Len(s)] = " " THEN RStrip(SubSeq(s, 1, Len(s) - 1)) ELSE s

Strip(s) == RStrip(LStrip(s))

UpperCase == <<"A","B","C","D","E","F","G","H","I","J","K","L","M","N","O","P","Q","R","S","T","U","V","W","X","Y","Z","Ä","Ö","Ü">>

LowerCase == <<"a","b","c","d","e","f","g","h","i","j","k","l","m","n","o","p","q","r","s","t","u","v","w","x","y","z","ä","ö","ü">>

LowerChar(c) == IF \E i \in DOMAIN UpperCase : UpperCase[i] = c THEN LowerCase[CHOOSE i \in DOMAIN UpperCase : UpperCase[i] = c] ELSE c

\* str.lower()
Lower(s) == [i \in DOMAIN s |-> LowerChar(s[i])]

\* str.replace(old, new) for one-character old and new
Replace(s, old, new) == [i \in DOMAIN s |-> IF s[i] = old THEN new ELSE s[i]]

\* ExtraKey without the second replace
ExtraKey_spaces_only(label_text) == Replace(Lower(label_text), " ", "_")

\* label_text.lower().replace(" ", "_").replace("-", "_")
ExtraKey(label_text) == Replace(Replace(Lower(label_text), " ", "_"), "-", "_")

\* info.extra_fields[key] = value
DictSet(d, key, value) == [k \in (DOMAIN d) \cup {key} |-> IF k = key THEN value ELSE d[k]]

\* setattr(info, field_name, value)
SetAttr(info, field_name, value) == [info EXCEPT ![field_name] = value]

Group(has_label, label, has_input, value) == [has_label |-> has_label, label |-> label, has_input |-> has_input, value |-> value]

\* ParseGroup that stores a known label's value even when it is empty
ParseGroup_stores_empty(info, g) == IF ~g.has_label THEN info ELSE IF ~g.has_input THEN info ELSE LET label_text == Strip(g.label) field_name == LabelField(label_text) IN IF field_name # "" THEN SetAttr(info, field_name, g.value) ELSE IF label_text # <<>> /\ g.value # <<>> /\ field_name = "" THEN [info EXCEPT !.extra_fields = DictSet(@, ExtraKey(label_text), g.value)] ELSE info

\* the body of  for group in form_groups
ParseGroup(info, g) == IF ~g.has_label THEN info ELSE IF ~g.has_input THEN info ELSE LET label_text == Strip(g.label) field_name == LabelField(label_text) IN IF field_name # "" /\ g.value # <<>> THEN SetAttr(info, field_name, g.value) ELSE IF label_text # <<>> /\ g.value # <<>> /\ field_name = "" THEN [info EXCEPT !.extra_fields = DictSet(@, ExtraKey(label_text), g.value)] ELSE info

\* parse_install_info up to the loop: the fresh record and the script variable
ParseScript(text, now) == IF "gponPasswd" \in DOMAIN parse_js_vars(text) THEN SetAttr(ONTInfo(now), "ont_id", parse_js_vars(text)["gponPasswd"]) ELSE ONTInfo(now)

RECURSIVE ParseGroups(_, _)
ParseGroups(info, groups) == IF groups = <<>> THEN info ELSE ParseGroups(ParseGroup(info, Head(groups)), Tail(groups))

parse_install_info(text, now) == ParseGroups(ParseScript(text, now), text.groups)

\* result key -> the script variable it is copied from
IDENTIFIER_VARS == [connection_status |-> "gponStatus", country_code |-> "countryCode", ont_id |-> "gponPasswd"]

\* parse_identifier that leaves out a variable whose value is empty
parse_identifier_drops_empty(text) == LET js_vars == parse_js_vars(text) IN [k \in {x \in DOMAIN IDENTIFIER_VARS : IDENTIFIER_VARS[x] \in DOMAIN js_vars /\ js_vars[IDENTIFIER_VARS[x]] # <<>>} |-> js_vars[IDENTIFIER_VARS[k]]]

parse_identifier(text) == LET js_vars == parse_js_vars(text) IN [k \in {x \in DOMAIN IDENTIFIER_VARS : IDENTIFIER_VARS[x] \in DOMAIN js_vars} |-> js_vars[IDENTIFIER_VARS[k]]]

\* MergeStatus that, like the other two, fills the field only when it is empty
MergeStatus_only_if_empty(info, identifier_data) == IF info.connection_status = <<>> /\ "connection_status" \in DOMAIN identifier_data THEN SetAttr(info, "connection_status", identifier_data["connection_status"]) ELSE info

MergeStatus(info, identifier_data) == IF "connection_status" \in DOMAIN identifier_data THEN SetAttr(info, "connection_status", identifier_data["connection_status"]) ELSE info

\* MergeCountry without the  not info.country_code  guard
MergeCountry_unguarded(info, identifier_data) == IF "country_code" \in DOMAIN identifier_data THEN SetAttr(info, "country_code", identifier_data["country_code"]) ELSE info

MergeCountry(info, identifier_data) == IF info.country_code = <<>> /\ "country_code" \in DOMAIN identifier_data THEN SetAttr(info, "country_code", identifier_data["country_code"]) ELSE info

MergeOntId(info, identifier_data) == IF info.ont_id = <<>> /\ "ont_id" \in DOMAIN identifier_data THEN SetAttr(info, "ont_id", identifier_data["ont_id"]) ELSE info

merge_info(info, identifier_data) == MergeOntId(MergeCountry(MergeStatus(info, identifier_data), identifier_data), identifier_data)

\* ------------------------------------------------------------------- cli
\* load_credentials(path) on a file described by what the code tests of it
load_credentials(file) == IF ~file.exists THEN [exc |-> Exc("ConfigError", "Credentials file not found"), username |-> "", password |-> <<>>] ELSE IF ~file.has_section THEN [exc |-> Exc("ConfigError", "Missing [ont] section"), username |-> "", password |-> <<>>] ELSE IF ~file.has_username THEN [exc |-> Exc("ConfigError", "Missing 'username' in [ont] section"), username |-> "", password |-> <<>>] ELSE IF ~file.has_password THEN [exc |-> Exc("ConfigError", "Missing 'password' in [ont] section"), username |-> "", password |-> <<>>] ELSE [exc |-> NoExc, username |-> file.username, password |-> file.password]

\* FetchPrimary that issues the request a second time when it failed
FetchPrimary_retries(li, resp, now) == LET r == fetch_install_info(li, resp) IN IF r.exc # NoExc THEN [exc |-> r.exc, sent |-> r.sent \o r.sent, parsed |-> FALSE, info |-> ONTInfo(0)] ELSE [exc |-> NoExc, sent |-> r.sent, parsed |-> TRUE, info |-> parse_install_info(r.ret, now)]

\* fetch_ont_info, first half: fetch_install_info() and parse_install_info()
FetchPrimary(li, resp, now) == LET r == fetch_install_info(li, resp) IN IF r.exc # NoExc THEN [exc |-> r.exc, sent |-> r.sent, parsed |-> FALSE, info |-> ONTInfo(0)] ELSE [exc |-> NoExc, sent |-> r.sent, parsed |-> TRUE, info |-> parse_install_info(r.ret, now)]

\* FetchSecondary whose handler hands back a fresh record instead of the primary one
FetchSecondary_loses_primary(info, li, resp) == LET r == fetch_identifier(li, resp) IN IF r.exc # NoExc THEN [caught |-> r.exc, sent |-> r.sent, info |-> ONTInfo(info.fetched_at)] ELSE [caught |-> NoExc, sent |-> r.sent, info |-> merge_info(info, parse_identifier(r.ret))]

\* fetch_ont_info, second half: the try block around the identifier page;
\* exc is what  except Exception: pass  caught
FetchSecondary(info, li, resp) == LET r == fetch_identifier(li, resp) IN IF r.exc # NoExc THEN [caught |-> r.exc, sent |-> r.sent, info |-> info] ELSE [caught |-> NoExc, sent |-> r.sent, info |-> merge_info(info, parse_identifier(r.ret))]

\* main's try/except around the with block: an exception ends the run with
\* return 1, otherwise the run goes on to the next statement
OnException_swallowed(exc, next_pc) == [pc |-> next_pc, exit_code |-> -1]

OnException(exc, next_pc) == IF exc # NoExc THEN [pc |-> "exit", exit_code |-> 1] ELSE [pc |-> next_pc, exit_code |-> -1]

\* ----------------------------------------------------------------- state
VARIABLES logged_in, requests, last, calls, info, ppc, ngroups, nmerges, pin, pc, creds, exit_code, output, fcall

vars == <<logged_in, requests, last, calls, info, ppc, ngroups, nmerges, pin, pc, creds, exit_code, output, fcall>>

clientVars == <<logged_in, requests, last, calls>>

parserVars == <<ppc, ngroups, nmerges, pin>>

mainVars == <<pc, creds, exit_code, output>>

Last(op, exc, ret, get, post) == [op |-> op, exc |-> exc, ret |-> ret, get |-> get, post |-> post]

\* the last input handed to the parser (a page script, a group or a mapping)
\* and the value that the field it addresses held before
Pin(op, script, group, data, old) == [op |-> op, script |-> script, group |-> group, data |-> data, old |-> old]

\* what the typed field a group addresses holds, "" if it addresses none
Addressed(rec, g) == IF g.has_label /\ g.has_input /\ LabelField(Strip(g.label)) # "" THEN rec[LabelField(Strip(g.label))] ELSE <<>>

NoGroup == Group(FALSE, <<>>, FALSE, <<>>)

\* one call of a function of the package on its own: its argument and
\* what it returned
Call(op, arg, out) == [op |-> op, arg |-> arg, out |-> out]

NoCall == Call("none", <<>>, <<>>)

\* ---------------------------------------------------------------- inputs
Usernames == {"admin"}

Passwords == {<<"p","w">>}

SidAssigns == {Assign("var", "sid", "\"", <<"a","B","1">>), Assign("var", "sid", "\"", <<"x","1">>)}

LoginPages == { Text(<<>>, s, <<>>) : s \in SeqsUpTo(SidAssigns, MaxScript) }

\* bodies with every combination of the two markers login looks for
PostBodies == { Text(f, <<>>, <<>>) : f \in {<<>>, <<"<html>Welcome</html>">>, <<WRONG_PASSWORD_MARKER>>, <<"<html>", AUTH_ERROR_MARKER>>, <<WRONG_PASSWORD_MARKER, AUTH_ERROR_MARKER>>, <<AUTH_ERROR_MARKER, "<br>", WRONG_PASSWORD_MARKER>>} }

\* bodies with every combination of the two markers of a login redirect
PageFrags == {<<>>, <<"<html>">>, <<LOGIN_REDIRECT_MARKER>>, <<PARENT_REDIRECT_MARKER, "<html>">>, <<PARENT_REDIRECT_MARKER, LOGIN_REDIRECT_MARKER>>, <<LOGIN_REDIRECT_MARKER, "<html>", PARENT_REDIRECT_MARKER>>}

PageBodies == { Text(f, <<>>, <<>>) : f \in PageFrags }

Resps(texts) == { Resp("ok", t) : t \in texts } \cup { Resp("http_error", NoText), Resp("conn_error", NoText) }

\* the response the operation got to see: none if no request was issued
Seen(sent, n, resp) == IF Len(sent) >= n THEN resp ELSE NoResp

\* datetime.now()
Times == {1, 2}

JsAssigns == {Assign("var", "gponPasswd", "\"", <<"7">>), Assign("var", "gponPasswd", "\"", <<>>), Assign("var", "gponStatus", "\"", <<"8">>), Assign("var", "countryCode", "\"", <<"9">>)}

Scripts == SeqsUpTo(JsAssigns, MaxScript)

KnownGroups == {Group(TRUE, LABEL_ONT_ID, TRUE, v) : v \in {<<>>, <<"1">>, <<"2">>}} \cup {Group(TRUE, <<" ">> \o LABEL_SERIAL_NUMBER \o <<" ">>, TRUE, v) : v \in {<<>>, <<"1">>, <<"2">>}} \cup {Group(TRUE, l, TRUE, <<"1">>) : l \in DOMAIN LABEL_FIELD_MAP}

UnknownGroups == {Group(TRUE, <<"U"," ","f">>, TRUE, <<"1">>), Group(TRUE, <<"U","-","f">>, TRUE, <<"2">>), Group(TRUE, <<"u","_","f">>, TRUE, <<"1">>), Group(TRUE, <<"U"," ","f">>, TRUE, <<>>), Group(TRUE, <<>>, TRUE, <<"1">>), Group(TRUE, <<"s","e","r","i","e","n","n","u","m","m","e","r">>, TRUE, <<"2">>)}

Groups == KnownGroups \cup UnknownGroups \cup {Group(FALSE, <<>>, TRUE, <<"1">>), Group(TRUE, LABEL_MAC_ADDRESS, FALSE, <<>>)}

IdentifierValues == {<<>>, <<"9">>}

\* every set of keys with one value throughout, and two mappings that mix
\* an empty status with non-empty others and the reverse
IdentifierData == { [k \in ks |-> v] : ks \in SUBSET (DOMAIN IDENTIFIER_VARS), v \in IdentifierValues } \cup { [connection_status |-> <<>>, country_code |-> <<"9">>, ont_id |-> <<"9">>], [connection_status |-> <<"9">>, country_code |-> <<>>, ont_id |-> <<>>] }

MainGroups == {Group(TRUE, LABEL_SERIAL_NUMBER, TRUE, <<"1">>), Group(TRUE, LABEL_COUNTRY_CODE, TRUE, <<"2">>), Group(TRUE, <<"U"," ","f">>, TRUE, <<"1">>)}

MainFrags == {<<>>, <<LOGIN_REDIRECT_MARKER>>, <<PARENT_REDIRECT_MARKER, LOGIN_REDIRECT_MARKER>>}

PrimaryPages == { Text(f, s, g) : f \in MainFrags, s \in {<<>>, <<Assign("var", "gponPasswd", "\"", <<"7">>)>>}, g \in SeqsUpTo(MainGroups, MaxGroups) }

SecondaryPages == { Text(f, s, <<>>) : f \in MainFrags, s \in Scripts }

ConfigFiles == { [exists |-> e, has_section |-> s, has_username |-> u, has_password |-> p, username |-> "admin", password |-> <<"p","w">>] : e \in BOOLEAN, s \in BOOLEAN, u \in BOOLEAN, p \in BOOLEAN }

Formats == {"json", "table"}

\* script assignments as a page can hold them: a value with a backslash-
\* escaped quote inside, an empty value, an assignment without var, a
\* single-quoted one, one to a name that is not looked for
ScanAssigns == {Assign("var", "gponPasswd", "\"", <<"7">>), Assign("var", "gponStatus", "\"", <<"a","\\","\"","b">>), Assign("var", "gponStatus", "\"", <<"8">>), Assign("", "gponStatus", "\"", <<"5">>), Assign("var", "gponStatus", "'", <<"6">>), Assign("var", "countryCode", "\"", <<>>), Assign("var", "countryCode", "\"", <<"9">>), Assign("var", "other", "\"", <<"1">>)}

\* the login page's example, a single-quoted id, quotes that differ, an
\* empty and a non-hex value, an assignment without var, another name
SidScanAssigns == {Assign("var", "sid", "\"", <<"a","b","c","1","2","3","4","5">>), Assign("var", "sid", "'", <<"A","0">>), Assign("var", "sid", "\"", <<"d","'","z">>), Assign("var", "sid", "\"", <<"F">>), Assign("var", "sid", "\"", <<>>), Assign("var", "sid", "\"", <<"g","1">>), Assign("", "sid", "\"", <<"c","3">>), Assign("var", "other", "\"", <<"f","f">>)}

SidScanPages == { Text(<<>>, s, <<>>) : s \in SeqsUpTo(SidScanAssigns, MaxScript) }

\* passwords for the hash: the test's shape and one with a colon of its own
HashPasswords == {<<"p","w">>, <<"q",":">>}

\* the arguments of one login() and the state of the client it is called on
LoginArgs == [li : BOOLEAN, username : Usernames, password : HashPasswords, getResp : Resps(SidScanPages), postResp : Resps(PostBodies)]

\* a value of its own for every typed field
FieldSample == [ont_id |-> <<"a">>, vendor_id |-> <<"b">>, serial_number |-> <<"c">>, gpon_serial_number |-> <<"d">>, mac_address |-> <<"e">>, hardware_version |-> <<"f">>, active_software_version |-> <<"g">>, standby_software_version |-> <<"h">>, country_code |-> <<"i">>, connection_status |-> <<"j">>, optical_power_dbm |-> <<"k">>]

\* the sets of typed fields a record has populated: all, all but one, one, none
PopulatedSets == {TypedFields, {}} \cup { TypedFields \ {f} : f \in TypedFields } \cup { {f} : f \in TypedFields }

ExtraFieldSets == {<<>>, DictSet(<<>>, <<"u","_","f">>, <<"1">>)}

\* the records to_dict is applied to
ToDictRecords == { [k \in DOMAIN ONTInfo(0) |-> IF k = "fetched_at" THEN t ELSE IF k = "extra_fields" THEN x ELSE IF k \in S THEN FieldSample[k] ELSE <<>>] : S \in PopulatedSets, t \in {0} \cup Times, x \in ExtraFieldSets }

ScanTexts == { Text(<<>>, s, <<>>) : s \in SeqsUpTo(ScanAssigns, MaxScript) }

\* ------------------------------------------------------------------ Init
\* ONTClient.__init__, no page parsed, main() not started
Init == /\ logged_in = FALSE
        /\ requests = <<>>
        /\ last = Last("init", NoExc, NoText, NoResp, NoResp)
        /\ calls = 0
        /\ info = ONTInfo(0)
        /\ ppc = "idle"
        /\ ngroups = 0
        /\ nmerges = 0
        /\ pin = Pin("none", <<>>, NoGroup, <<>>, <<>>)
        /\ pc = "start"
        /\ creds = [username |-> "", password |-> <<>>]
        /\ exit_code = -1
        /\ output = <<>>
        /\ fcall = NoCall

\* --------------------------------------------------- the client's methods
Login == /\ calls < MaxCalls
         /\ \E u \in Usernames, p \in Passwords, g \in Resps(LoginPages), q \in Resps(PostBodies) :
              LET r == login(logged_in, u, p, g, q) IN
              /\ logged_in' = r.logged_in
              /\ requests' = requests \o r.sent
              /\ last' = Last("login", r.exc, NoText, g, Seen(r.sent, 2, q))
         /\ calls' = calls + 1
         /\ UNCHANGED <<fcall, info, parserVars, mainVars>>

FetchInstallInfo == /\ calls < MaxCalls
                    /\ \E resp \in Resps(PageBodies) :
                         LET r == fetch_install_info(logged_in, resp) IN
                         /\ requests' = requests \o r.sent
                         /\ last' = Last("fetch_install_info", r.exc, r.ret, Seen(r.sent, 1, resp), NoResp)
                    /\ calls' = calls + 1
                    /\ UNCHANGED <<fcall, logged_in, info, parserVars, mainVars>>

FetchIdentifier == /\ calls < MaxCalls
                   /\ \E resp \in Resps(PageBodies) :
                        LET r == fetch_identifier(logged_in, resp) IN
                        /\ requests' = requests \o r.sent
                        /\ last' = Last("fetch_identifier", r.exc, r.ret, Seen(r.sent, 1, resp), NoResp)
                   /\ calls' = calls + 1
                   /\ UNCHANGED <<fcall, logged_in, info, parserVars, mainVars>>

\* close(): session.close() only
Close == /\ calls < MaxCalls
         /\ last' = Last("close", NoExc, NoText, NoResp, NoResp)
         /\ calls' = calls + 1
         /\ UNCHANGED <<fcall, logged_in, requests, info, parserVars, mainVars>>

Next == Login \/ FetchInstallInfo \/ FetchIdentifier \/ Close

Spec == Init /\ [][Next]_vars

\* ------------------------------------------------------------ the parser
\* parse_install_info: the fresh record and the script-variable scan
ParseBegin == /\ ppc = "idle"
              /\ \E s \in Scripts, now \in Times :
                   /\ info' = ParseScript(Text(<<>>, s, <<>>), now)
                   /\ pin' = Pin("script", s, NoGroup, <<>>, <<>>)
              /\ ppc' = "groups"
              /\ UNCHANGED <<fcall, ngroups, nmerges, clientVars, mainVars>>

\* one iteration of the loop over the form groups
ParseNextGroup == /\ ppc = "groups"
                  /\ ngroups < MaxGroups
                  /\ \E g \in Groups :
                       /\ info' = ParseGroup(info, g)
                       /\ pin' = Pin("group", <<>>, g, <<>>, Addressed(info, g))
                  /\ ngroups' = ngroups + 1
                  /\ UNCHANGED <<fcall, ppc, nmerges, clientVars, mainVars>>

\* the loop ends: return info
ParseReturn == /\ ppc = "groups"
               /\ ppc' = "parsed"
               /\ pin' = Pin("return", <<>>, NoGroup, <<>>, <<>>)
               /\ UNCHANGED <<fcall, info, ngroups, nmerges, clientVars, mainVars>>

Merge == /\ ppc = "parsed"
         /\ nmerges < MaxMerges
         /\ \E d \in IdentifierData :
              /\ info' = merge_info(info, d)
              /\ pin' = Pin("merge", <<>>, NoGroup, d, info.connection_status)
         /\ nmerges' = nmerges + 1
         /\ UNCHANGED <<fcall, ppc, ngroups, clientVars, mainVars>>

NextParser == ParseBegin \/ ParseNextGroup \/ ParseReturn \/ Merge

SpecParser == Init /\ [][NextParser]_vars

\* ---------------------------------------------------------------- main()
MainLoadCredentials == /\ pc = "start"
                       /\ \E file \in ConfigFiles :
                            LET r == load_credentials(file) IN
                            /\ creds' = [username |-> r.username, password |-> r.password]
                            /\ last' = Last("load_credentials", r.exc, NoText, NoResp, NoResp)
                            /\ pc' = OnException(r.exc, "login").pc
                            /\ exit_code' = OnException(r.exc, "login").exit_code
                       /\ UNCHANGED <<fcall, logged_in, requests, calls, info, parserVars, output>>

MainLogin == /\ pc = "login"
             /\ \E g \in Resps(LoginPages), q \in Resps(PostBodies) :
                  LET r == login(logged_in, creds.username, creds.password, g, q) IN
                  /\ logged_in' = r.logged_in
                  /\ requests' = requests \o r.sent
                  /\ last' = Last("login", r.exc, NoText, g, Seen(r.sent, 2, q))
                  /\ pc' = OnException(r.exc, "fetch").pc
                  /\ exit_code' = OnException(r.exc, "fetch").exit_code
             /\ UNCHANGED <<fcall, calls, info, parserVars, creds, output>>

MainFetchPrimary == /\ pc = "fetch"
                    /\ \E resp \in Resps(PrimaryPages), now \in Times :
                         LET r == FetchPrimary(logged_in, resp, now) IN
                         /\ requests' = requests \o r.sent
                         /\ last' = Last("fetch_install_info", r.exc, NoText, Seen(r.sent, 1, resp), NoResp)
                         /\ info' = IF r.parsed THEN r.info ELSE info
                         /\ pc' = OnException(r.exc, "identifier").pc
                         /\ exit_code' = OnException(r.exc, "identifier").exit_code
                    /\ UNCHANGED <<fcall, logged_in, calls, parserVars, creds, output>>

MainFetchSecondary == /\ pc = "identifier"
                      /\ \E resp \in Resps(SecondaryPages) :
                           LET r == FetchSecondary(info, logged_in, resp) IN
                           /\ requests' = requests \o r.sent
                           /\ last' = Last("fetch_identifier", r.caught, NoText, Seen(r.sent, 1, resp), NoResp)
                           /\ info' = r.info
                      /\ pc' = "output"
                      /\ UNCHANGED <<fcall, logged_in, calls, parserVars, creds, exit_code, output>>

\* print_table / print_json, leaving the with block, return 0
MainOutput == /\ pc = "output"
              /\ \E f \in Formats : output' = Append(output, [format |-> f, info |-> info])
              /\ last' = Last("output", NoExc, NoText, NoResp, NoResp)
              /\ pc' = "exit"
              /\ exit_code' = 0
              /\ UNCHANGED <<fcall, logged_in, requests, calls, info, parserVars, creds>>

NextMain == MainLoadCredentials \/ MainLogin \/ MainFetchPrimary \/ MainFetchSecondary \/ MainOutput

SpecMain == Init /\ [][NextMain]_vars

\* ------------------------------------------- the functions on their own
ParseJsVarsCall == /\ fcall = NoCall
                   /\ \E t \in ScanTexts : fcall' = Call("parse_js_vars", t, parse_js_vars(t))
                   /\ UNCHANGED <<clientVars, info, parserVars, mainVars>>

GetSessionIdCall == /\ fcall = NoCall
                    /\ \E resp \in Resps(SidScanPages) : fcall' = Call("get_session_id", resp, get_session_id(resp))
                    /\ UNCHANGED <<clientVars, info, parserVars, mainVars>>

ParseIdentifierCall == /\ fcall = NoCall
                       /\ \E t \in ScanTexts : fcall' = Call("parse_identifier", t, parse_identifier(t))
                       /\ UNCHANGED <<clientVars, info, parserVars, mainVars>>

LoginCall == /\ fcall = NoCall
             /\ \E a \in LoginArgs : fcall' = Call("login", a, login(a.li, a.username, a.password, a.getResp, a.postResp))
             /\ UNCHANGED <<clientVars, info, parserVars, mainVars>>

ToDictCall == /\ fcall = NoCall
              /\ \E r \in ToDictRecords : fcall' = Call("to_dict", r, to_dict(r))
              /\ UNCHANGED <<clientVars, info, parserVars, mainVars>>

NextFn == ParseJsVarsCall \/ GetSessionIdCall \/ ParseIdentifierCall \/ LoginCall \/ ToDictCall

SpecFn == Init /\ [][NextFn]_vars

\* ===================================================================
\* Properties
\* ===================================================================
FetchOps == {"fetch_install_info", "fetch_identifier"}

\* C1: on a client on which no login has succeeded, fetch_install_info and
\* fetch_identifier fail with the not-logged-in RuntimeError and add no
\* request to those issued, whatever failed logins and fetches came before.
C1_FetchBeforeLoginFailsClosed == [][(calls' = calls + 1 /\ ~logged_in /\ last'.op \in FetchOps) => (last'.exc = NotLoggedIn /\ requests' = requests /\ last'.get = NoResp)]_vars

\* a third call, fetch_identifier, refused after a failed login sent its GET
C1_Witness == ~logged_in /\ calls = 3 /\ last.op = "fetch_identifier" /\ last.exc = NotLoggedIn /\ Len(requests) >= 1 /\ \A i \in DOMAIN requests : requests[i].path = LOGIN_PATH

IsLoginRedirect(text) == Contains(text, LOGIN_REDIRECT_MARKER) /\ Contains(text, PARENT_REDIRECT_MARKER)

\* C2: after a successful login, either page fetch whose 2xx body holds both
\* the login path and the parent-window redirect marker fails with
\* SessionExpired; a body with one marker or none is returned.
C2_RedirectIsSessionExpired == (logged_in /\ last.op \in FetchOps /\ last.get.status = "ok") => IF IsLoginRedirect(last.get.text) THEN last.exc = SessionExpired ELSE (last.exc = NoExc /\ last.ret = last.get.text)

\* C3: login raises "Invalid username or password" when the POST body holds
\* the wrong-password marker (also when it holds both markers), otherwise
\* "Authentication failed" when it holds the authentication-error marker,
\* otherwise nothing; _logged_in is set exactly when nothing was raised and
\* is left as it was on either failure.
C3_LoginClassification == [][(calls' = calls + 1 /\ last'.op = "login" /\ last'.post.status = "ok") => (/\ last'.exc = (IF \E i \in DOMAIN last'.post.text.frags : last'.post.text.frags[i] = WRONG_PASSWORD_MARKER THEN InvalidCredentials ELSE IF \E i \in DOMAIN last'.post.text.frags : last'.post.text.frags[i] = AUTH_ERROR_MARKER THEN AuthFailed ELSE NoExc) /\ (last'.exc = NoExc => logged_in') /\ (last'.exc # NoExc => logged_in' = logged_in))]_vars

\* both markers in the body, the authentication-error one first: InvalidCredentials
C3_Witness == ~logged_in /\ last.op = "login" /\ last.post.status = "ok" /\ last.post.text.frags = <<AUTH_ERROR_MARKER, "<br>", WRONG_PASSWORD_MARKER>> /\ last.exc = InvalidCredentials

\* C4: a login whose GET returned a page with no session-id assignment ends
\* with the could-not-extract AuthenticationError, having issued that one
\* GET and no POST, and leaves _logged_in as it was.
C4_NoSidIsTerminal == [][(calls' = calls + 1 /\ last'.op = "login" /\ last'.get.status = "ok" /\ \A i \in DOMAIN last'.get.text.script : ~SidMatches(last'.get.text.script[i])) => (last'.exc = SidNotFound /\ requests' = Append(requests, Get(LOGIN_PATH)) /\ last'.post = NoResp /\ logged_in' = logged_in)]_vars

\* the first call: a login page whose only assignment is no hex string
C4_Witness == ~logged_in /\ calls = 1 /\ last.op = "login" /\ last.get.status = "ok" /\ Len(last.get.text.script) = 1 /\ last.exc = SidNotFound /\ requests = <<Get(LOGIN_PATH)>>

MergeStep == nmerges' = nmerges + 1

GroupStep == ngroups' = ngroups + 1

\* C5: merge_info gives connection_status the secondary's value whenever the
\* mapping has the key, whatever the record held; country_code and ont_id
\* take the secondary's value only when the record's field is empty and the
\* mapping has the key; otherwise each keeps the record's value.
C5_MergeRules == [][MergeStep => (/\ info'.connection_status = (IF "connection_status" \in DOMAIN pin'.data THEN pin'.data["connection_status"] ELSE info.connection_status) /\ info'.country_code = (IF info.country_code = <<>> /\ "country_code" \in DOMAIN pin'.data THEN pin'.data["country_code"] ELSE info.country_code) /\ info'.ont_id = (IF info.ont_id = <<>> /\ "ont_id" \in DOMAIN pin'.data THEN pin'.data["ont_id"] ELSE info.ont_id))]_vars

\* a second merge: a populated connection_status replaced by the secondary's
\* empty one, country_code kept from the page, ont_id filled from the mapping
C5_Witness == pin.op = "merge" /\ DOMAIN pin.data = DOMAIN IDENTIFIER_VARS /\ pin.old = <<"9">> /\ pin.data["connection_status"] = <<>> /\ info.connection_status = <<>> /\ pin.data["country_code"] = <<"9">> /\ info.country_code = <<"1">> /\ info.ont_id = <<"9">>

\* C6 as claimed: the typed fields start empty; a group of the primary page
\* changes a typed field only if the field was empty; and no step of
\* parse_install_info or merge_info turns a populated field into an empty one.
C6_WritesOnlyFromEmpty == [][/\ (ppc = "idle" => \A f \in TypedFields : info[f] = <<>>) /\ (GroupStep => \A f \in TypedFields : info'[f] # info[f] => info[f] = <<>>) /\ ((GroupStep \/ MergeStep) => \A f \in TypedFields : info[f] # <<>> => info'[f] # <<>>)]_vars

\* C6 amended: the typed fields start empty; a group of the primary page
\* changes a typed field only to a non-empty value (replacing a populated
\* value too), so parsing never empties a field; merge_info never changes a
\* populated field other than connection_status.
C6_NeverEmptiedByParse == [][/\ (ppc = "idle" => \A f \in TypedFields : info[f] = <<>>) /\ (ppc = "idle" /\ ppc' = "groups" => \A f \in TypedFields \ {"ont_id"} : info'[f] = <<>>) /\ (GroupStep => \A f \in TypedFields : info'[f] # info[f] => info'[f] # <<>>) /\ (MergeStep => \A f \in TypedFields \ {"connection_status"} : info[f] # <<>> => info'[f] = info[f])]_vars

\* a populated ont_id replaced by a later label's other value
C6_Witness == pin.op = "group" /\ Strip(pin.group.label) = LABEL_ONT_ID /\ pin.old # <<>> /\ pin.group.value # <<>> /\ pin.old # pin.group.value /\ info.ont_id = pin.group.value

\* C7: when the identifier step of fetch_ont_info raises, the exception is
\* caught and the record stays exactly the one parse_install_info made of
\* the primary page.
C7_SecondaryFailureKeepsPrimary == [][(pc = "identifier" /\ pc' = "output" /\ last'.exc # NoExc) => (info' = info /\ info' = parse_install_info(last.get.text, info.fetched_at) /\ exit_code' = exit_code)]_vars

\* the identifier page answered 5xx after a primary page with a serial number
C7_Witness == pc = "output" /\ last.op = "fetch_identifier" /\ last.exc = HTTPError /\ info.serial_number = <<"1">> /\ info.connection_status = <<>>

\* C8: a login or primary fetch that raised ends main with exit code 1, no
\* identifier request and nothing printed; main returns 0 only logged in,
\* with the primary page fetched and one record printed.
C8_FatalErrors == /\ (last.op \in {"login", "fetch_install_info"} /\ last.exc # NoExc) => (pc = "exit" /\ exit_code = 1 /\ output = <<>> /\ \A i \in DOMAIN requests : requests[i].path # IDENTIFIER_PATH)
                  /\ (pc = "exit" => exit_code \in {0, 1})
                  /\ (exit_code = 0 => (pc = "exit" /\ logged_in /\ Len(output) = 1 /\ output[1].info = info /\ \E i \in DOMAIN requests : requests[i] = Get(INFO_PATH)))

\* the primary page came back as a login redirect: exit 1, nothing printed
C8_Witness == pc = "exit" /\ exit_code = 1 /\ logged_in /\ last.op = "fetch_install_info" /\ last.exc = SessionExpired /\ output = <<>>

\* the key the claim gives for an unknown label
C9_Key(L) == [i \in 1..Len(L) |-> IF L[i] \in {" ", "-"} THEN "_" ELSE LowerChar(L[i])]

\* C9: for a group with label text L and value V: L known and V non-empty
\* sets the mapped field to V; L known and V empty stores nothing; L unknown
\* with L and V non-empty stores V in extra_fields under L lowercased with
\* spaces and hyphens turned into '_'; anything else stores nothing. A known
\* label never reaches extra_fields.
C9_LabelRule == [][(GroupStep /\ pin'.group.has_label /\ pin'.group.has_input) => LET L == Strip(pin'.group.label) V == pin'.group.value IN IF L \in DOMAIN LABEL_FIELD_MAP THEN (IF V # <<>> THEN info' = [info EXCEPT ![LABEL_FIELD_MAP[L]] = V] ELSE info' = info) /\ info'.extra_fields = info.extra_fields ELSE IF L # <<>> /\ V # <<>> THEN (/\ \A f \in TypedFields \cup {"fetched_at"} : info'[f] = info[f] /\ DOMAIN info'.extra_fields = DOMAIN info.extra_fields \cup {C9_Key(L)} /\ info'.extra_fields[C9_Key(L)] = V /\ \A k \in DOMAIN info.extra_fields \ {C9_Key(L)} : info'.extra_fields[k] = info.extra_fields[k]) ELSE info' = info]_vars

\* "U-f" stored under "u_f" beside a typed field set by a known label
C9_Witness == pin.op = "group" /\ pin.group.label = <<"U","-","f">> /\ DOMAIN info.extra_fields = {<<"u","_","f">>} /\ info.extra_fields[<<"u","_","f">>] = <<"2">> /\ info.hardware_version = <<"1">>

\* C10: merge_info leaves vendor_id, serial_number, gpon_serial_number,
\* mac_address, the three versions, optical_power_dbm, extra_fields and
\* fetched_at as they were, and country_code and ont_id too when they were
\* not empty.
C10_MergeFrame == [][MergeStep => (/\ \A f \in TypedFields \ {"connection_status", "country_code", "ont_id"} : info'[f] = info[f] /\ info'.extra_fields = info.extra_fields /\ info'.fetched_at = info.fetched_at /\ (info.country_code # <<>> => info'.country_code = info.country_code) /\ (info.ont_id # <<>> => info'.ont_id = info.ont_id))]_vars

\* a mapping with all three keys merged into a record that has a vendor, a
\* country code and an ont_id of its own
C10_Witness == pin.op = "merge" /\ DOMAIN pin.data = DOMAIN IDENTIFIER_VARS /\ pin.data["country_code"] = <<"9">> /\ pin.data["ont_id"] = <<"9">> /\ info.country_code = <<"1">> /\ info.ont_id = <<"7">> /\ info.vendor_id = <<"1">> /\ info.connection_status = pin.data["connection_status"]

\* an assignment  var NAME = "..."  as the claim counts it
C11_IsAssign(a, n) == a.kw = "var" /\ a.name = n /\ a.q = "\""

\* the content of s up to its first quote that no backslash escapes
RECURSIVE C11_UpToUnescapedQuote(_)
C11_UpToUnescapedQuote(s) == IF s = <<>> \/ Head(s) = "\"" THEN <<>> ELSE IF Head(s) = "\\" /\ Len(s) >= 2 THEN <<s[1], s[2]>> \o C11_UpToUnescapedQuote(Tail(Tail(s))) ELSE <<Head(s)>> \o C11_UpToUnescapedQuote(Tail(s))

C11_First(s, n) == CHOOSE i \in DOMAIN s : C11_IsAssign(s[i], n) /\ \A j \in 1..(i-1) : ~C11_IsAssign(s[j], n)

\* C11: parse_js_vars returns a mapping over the three known names only;
\* a name is a key exactly when the text has a double-quoted assignment to
\* it, and its value is the content of the first such assignment up to the
\* next quote that is not escaped; text with none gives the empty mapping.
C11_ScanAsClaimed == fcall.op = "parse_js_vars" => (/\ DOMAIN fcall.out \subseteq JS_VAR_NAMES /\ \A n \in JS_VAR_NAMES : IF \E i \in DOMAIN fcall.arg.script : C11_IsAssign(fcall.arg.script[i], n) THEN n \in DOMAIN fcall.out /\ fcall.out[n] = C11_UpToUnescapedQuote(fcall.arg.script[C11_First(fcall.arg.script, n)].val) ELSE n \notin DOMAIN fcall.out)

\* the content of s up to its first quote of either kind
RECURSIVE C12_UpToAnyQuote(_)
C12_UpToAnyQuote(s) == IF s = <<>> \/ Head(s) \in {"'", "\""} THEN <<>> ELSE <<Head(s)>> \o C12_UpToAnyQuote(Tail(s))

C12_IsHex(s) == Len(s) >= 1 /\ \A i \in DOMAIN s : s[i] \in {"0","1","2","3","4","5","6","7","8","9","a","b","c","d","e","f","A","B","C","D","E","F"}

\* an assignment  var sid = "<hex-string>"  as the claim counts it
C12_IsSidAssign(a) == a.kw = "var" /\ a.name = "sid" /\ a.q = "\"" /\ C12_IsHex(a.val)

C12_IsQuotedSid(a) == a.kw = "var" /\ a.name = "sid" /\ a.q \in {"'", "\""} /\ C12_IsHex(C12_UpToAnyQuote(a.val))

C13_Key(n) == IF n = "gponStatus" THEN "connection_status" ELSE IF n = "countryCode" THEN "country_code" ELSE "ont_id"

\* C13: parse_identifier returns a mapping with keys among
\* connection_status, country_code and ont_id: a key is there exactly when
\* the text assigns its script variable (gponStatus, countryCode,
\* gponPasswd), and holds the value parse_js_vars scans for it, the empty
\* string included; no record is made or changed.
C13_SecondaryMapping == fcall.op = "parse_identifier" => (/\ info = ONTInfo(0) /\ DOMAIN fcall.out \subseteq {"connection_status", "country_code", "ont_id"} /\ \A n \in {"gponStatus", "countryCode", "gponPasswd"} : IF \E i \in DOMAIN fcall.arg.script : C11_IsAssign(fcall.arg.script[i], n) THEN C13_Key(n) \in DOMAIN fcall.out /\ fcall.out[C13_Key(n)] = parse_js_vars(fcall.arg)[n] ELSE C13_Key(n) \notin DOMAIN fcall.out)

\* an empty countryCode kept beside gponPasswd, with no gponStatus assigned
C13_Witness == fcall.op = "parse_identifier" /\ DOMAIN fcall.out = {"country_code", "ont_id"} /\ fcall.out["country_code"] = <<>> /\ fcall.out["ont_id"] = <<"7">> /\ fcall.arg.script[1].name = "countryCode"

\* the session id the login page of a GET hands out
C14_Token(resp) == C12_UpToAnyQuote(resp.text.script[CHOOSE i \in DOMAIN resp.text.script : C12_IsQuotedSid(resp.text.script[i]) /\ \A j \in 1..(i-1) : ~C12_IsQuotedSid(resp.text.script[j])].val)

\* C14: whatever the client's state, a login that gets as far as its POST
\* sends as LoginPasswordValue the MD5 digest of  password ":" sid,  with
\* the password it was called with and the sid of the page its own GET
\* returned, and sends it to the login path after that GET.
C14_HashOfPasswordAndToken == (fcall.op = "login" /\ Len(fcall.out.sent) = 2) => (/\ fcall.out.sent[1] = [method |-> "GET", path |-> "/cgi-bin/install_login.cgi", data |-> NoData] /\ fcall.out.sent[2].method = "POST" /\ fcall.out.sent[2].path = "/cgi-bin/install_login.cgi" /\ fcall.out.sent[2].data.LoginPasswordValue = [md5 |-> fcall.arg.password \o <<":">> \o C14_Token(fcall.arg.getResp)] /\ fcall.out.sent[2].data.Loginuser = fcall.arg.username)

\* a logged-in client logging in again with the password "q:" and the
\* single-quoted id A0: the digest is taken of  q::A0
C14_Witness == fcall.op = "login" /\ fcall.arg.li /\ fcall.arg.password = <<"q",":">> /\ Len(fcall.out.sent) = 2 /\ fcall.out.sent[2].data.LoginPasswordValue = [md5 |-> <<"q",":",":","A","0">>] /\ fcall.arg.getResp.text.script[1].q = "'"

C15_Fields == {"ont_id", "vendor_id", "serial_number", "gpon_serial_number", "mac_address", "hardware_version", "active_software_version", "standby_software_version", "country_code", "connection_status", "optical_power_dbm"}

\* the record ONTInfo(**{f: d[f] for the known fields}) builds from d
C15_FromDict(d) == [f \in C15_Fields |-> d[f]]

\* a string in the shape YYYY-MM-DDTHH:MM:SS with an optional fraction
C15_IsTimestamp(s) == Len(s) >= 19 /\ s[5] = "-" /\ s[8] = "-" /\ s[11] = "T" /\ s[14] = ":" /\ s[17] = ":" /\ (Len(s) > 19 => s[20] = ".")

\* C15: for a record with all eleven typed fields populated, to_dict
\* returns a dict that holds each of them under its own name with the
\* record's value and fetched_at as a timestamp string, and the eleven
\* fields read back from the dict are the record's.
C15_RoundTrip == (fcall.op = "to_dict" /\ \A f \in C15_Fields : fcall.arg[f] # <<>>) => (/\ C15_Fields \cup {"fetched_at"} \subseteq DOMAIN fcall.out /\ DOMAIN fcall.out \subseteq C15_Fields \cup {"fetched_at", "extra_fields"} /\ C15_IsTimestamp(fcall.out["fetched_at"]) /\ (\A f \in C15_Fields : fcall.out[f] = fcall.arg[f]) /\ (\A g \in C15_Fields : C15_FromDict(fcall.out)[g] = fcall.arg[g]))

\* a fully populated record with an extra field, serialized
C15_Witness == fcall.op = "to_dict" /\ (\A f \in C15_Fields : fcall.arg[f] # <<>>) /\ fcall.arg.extra_fields # <<>> /\ fcall.arg.fetched_at = 2 /\ "extra_fields" \in DOMAIN fcall.out /\ fcall.out["serial_number"] = <<"c">> /\ Len(fcall.out["fetched_at"]) = 26

\* the requests of a run, in the order the claim gives them
C16_Order == <<[method |-> "GET", path |-> "/cgi-bin/install_login.cgi"], [method |-> "POST", path |-> "/cgi-bin/install_login.cgi"], [method |-> "GET", path |-> "/cgi-bin/install_info.cgi"], [method |-> "GET", path |-> "/cgi-bin/install_identifier.cgi"]>>

C16_InOrder(log) == Len(log) <= 4 /\ \A i \in DOMAIN log : log[i].method = C16_Order[i].method /\ log[i].path = C16_Order[i].path

\* the step issues the n-th request of the run
C16_Issues(n) == Len(requests) < n /\ Len(requests') >= n

\* C16: in a run of main the requests issued are, in this order and each at
\* most once, the login GET, the login POST, the install_info GET and the
\* install_identifier GET; the POST follows only a GET that delivered a page
\* with a session id, the install_info GET only a login that raised
\* nothing, the install_identifier GET only an install_info GET that
\* raised nothing and whose page was parsed; after a step that raised, no
\* request is issued again.
C16_RequestOrder == [][/\ C16_InOrder(requests') /\ Len(requests') >= Len(requests) /\ SubSeq(requests', 1, Len(requests)) = requests /\ (C16_Issues(2) => (last'.op = "login" /\ last'.get.status = "ok" /\ \E i \in DOMAIN last'.get.text.script : C12_IsQuotedSid(last'.get.text.script[i]))) /\ (C16_Issues(3) => (last.op = "login" /\ last.exc = NoExc /\ last.post.status = "ok" /\ logged_in /\ Len(requests) = 2)) /\ (C16_Issues(4) => (last.op = "fetch_install_info" /\ last.exc = NoExc /\ last.get.status = "ok" /\ logged_in /\ Len(requests) = 3 /\ info = parse_install_info(last.get.text, info.fetched_at))) /\ (last.exc # NoExc => requests' = requests)]_vars

\* a run that got through all four requests and returned 0
C16_Witness == pc = "exit" /\ exit_code = 0 /\ Len(requests) = 4 /\ requests[2].method = "POST" /\ requests[4] = Get(IDENTIFIER_PATH) /\ last.op = "output"

C17_NoMarker(text) == \A i \in DOMAIN text.frags : text.frags[i] \notin {"Falscher Benutzer oder Passwort", "Fehler bei Authentifizierung"}

\* C17: _logged_in is false on a new client; a call turns it true only if
\* it is a login that raised nothing and whose POST body held neither
\* failure marker; no call (a failed login, a fetch that finds the session
\* expired, close) turns it false again, and on a client that has it true
\* a fetch gets past the guard and issues its request.
C17_LoggedInMonotone == [][/\ (calls = 0 => ~logged_in) /\ (logged_in => logged_in') /\ ((~logged_in /\ logged_in') => (last'.op = "login" /\ last'.exc = NoExc /\ last'.post.status = "ok" /\ C17_NoMarker(last'.post.text))) /\ ((logged_in /\ calls' = calls + 1 /\ last'.op \in {"fetch_install_info", "fetch_identifier"}) => (last'.exc # NotLoggedIn /\ Len(requests') = Len(requests) + 1))]_vars

\* a login, then a login that got no further than its GET, then a fetch of
\* the identifier page that is let through
C17_Witness == logged_in /\ calls = 3 /\ last.op = "fetch_identifier" /\ last.exc = NoExc /\ Len(requests) = 4 /\ requests[3] = Get(LOGIN_PATH) /\ requests[4] = Get(IDENTIFIER_PATH)

====
